---- MODULE Spec2Model ----
(***************************************************************************)
(* A model of src/tor_data_explorer.py: the size-token parser              *)
(* (FileAnalyzer.parse_file_size), the indentation-driven listing parser   *)
(* (FileAnalyzer.process_file_listing), the statistics aggregator          *)
(* (DataVisualizer.analyze_patterns) and the straight-line pipeline main.  *)
(*                                                                         *)
(* Text is a sequence of one-character strings.  Python integers are       *)
(* unbounded, so an integer is a sequence of base-1024 limbs, lowest limb  *)
(* first, without leading zero limbs (zero is the empty sequence).  A      *)
(* Python float is an IEEE-754 double: [mant, exp] stands for mant * 2^exp *)
(* with mant below 2^53, produced by round-to-nearest-even.                *)
(***************************************************************************)
EXTENDS Integers, Sequences, FiniteSets, TLC

VARIABLES
    size_str,      \* parse_file_size: the argument
    size_ret,      \* parse_file_size: what it returned or raised
    content,       \* process_file_listing: the argument
    line_no,       \* process_file_listing: number of lines of content.splitlines() consumed
    current_path,  \* process_file_listing: the path stack
    entries,       \* process_file_listing: the entries appended so far / analyze_patterns: the argument
    analysis,      \* analyze_patterns: the returned dictionary
    pc,            \* position of the running function or of main
    files,         \* main: the files the run has written
    stages         \* main: the stages the run has completed, in order

vars == <<size_str, size_ret, content, line_no, current_path, entries, analysis, pc,
          files, stages>>

----------------------------------------------------------------------------
(* Characters *)

DigitChars == {"0", "1", "2", "3", "4", "5", "6", "7", "8", "9"}

\* str.isspace for the characters of the model's alphabet
IsSpace(c) == c \in {" ", "\t", "\n"}

DigitVal(c) ==
    CASE c = "0" -> 0 [] c = "1" -> 1 [] c = "2" -> 2 [] c = "3" -> 3 [] c = "4" -> 4
      [] c = "5" -> 5 [] c = "6" -> 6 [] c = "7" -> 7 [] c = "8" -> 8 [] c = "9" -> 9

\* str.lower for the letters of the model's alphabet
LowerChar(c) ==
    CASE c = "K" -> "k" [] c = "M" -> "m" [] c = "G" -> "g" [] c = "T" -> "t"
      [] c = "B" -> "b" [] c = "X" -> "x" [] OTHER -> c

Lower(s) == [i \in 1..Len(s) |-> LowerChar(s[i])]

RECURSIVE LStrip(_)
LStrip(s) == IF s # <<>> /\ IsSpace(Head(s)) THEN LStrip(Tail(s)) ELSE s

RECURSIVE RStrip(_)
RStrip(s) ==
    IF s # <<>> /\ IsSpace(s[Len(s)]) THEN RStrip(SubSeq(s, 1, Len(s) - 1)) ELSE s

\* str.strip()
Strip(s) == RStrip(LStrip(s))

----------------------------------------------------------------------------
(* Unbounded integers: base-1024 limbs, lowest first *)

Base == 1024

RECURSIVE Norm(_)
Norm(n) == IF n # <<>> /\ n[Len(n)] = 0 THEN Norm(SubSeq(n, 1, Len(n) - 1)) ELSE n

RECURSIVE ToBig(_)
ToBig(i) == IF i = 0 THEN <<>> ELSE <<i % Base>> \o ToBig(i \div Base)

\* n * c + carry, for a small c
RECURSIVE MulSmall(_, _, _)
MulSmall(n, c, carry) ==
    IF n = <<>>
    THEN ToBig(carry)
    ELSE LET t == Head(n) * c + carry
         IN  Norm(<<t % Base>> \o MulSmall(Tail(n), c, t \div Base))

\* quotient and remainder of n by a small d
RECURSIVE DivRemSmall(_, _)
DivRemSmall(n, d) ==
    IF n = <<>>
    THEN [q |-> <<>>, r |-> 0]
    ELSE LET hi  == DivRemSmall(Tail(n), d)
             cur == hi.r * Base + Head(n)
         IN  [q |-> Norm(<<cur \div d>> \o hi.q), r |-> cur % d]

RECURSIVE BigAddC(_, _, _)
BigAddC(a, b, carry) ==
    IF a = <<>> /\ b = <<>>
    THEN ToBig(carry)
    ELSE LET x == IF a = <<>> THEN 0 ELSE Head(a)
             y == IF b = <<>> THEN 0 ELSE Head(b)
             t == x + y + carry
         IN  <<t % Base>> \o BigAddC(IF a = <<>> THEN a ELSE Tail(a),
                                     IF b = <<>> THEN b ELSE Tail(b), t \div Base)

BigAdd(a, b) == Norm(BigAddC(a, b, 0))

RECURSIVE BigMul(_, _)
BigMul(a, b) ==
    IF b = <<>> THEN <<>>
    ELSE BigAdd(MulSmall(a, Head(b), 0),
                LET rest == BigMul(a, Tail(b)) IN IF rest = <<>> THEN rest ELSE <<0>> \o rest)

\* a < b
RECURSIVE BigLess(_, _)
BigLess(a, b) ==
    IF Len(a) # Len(b) THEN Len(a) < Len(b)
    ELSE IF a = <<>> THEN FALSE
    ELSE IF a[Len(a)] # b[Len(b)] THEN a[Len(a)] < b[Len(b)]
    ELSE BigLess(Norm(SubSeq(a, 1, Len(a) - 1)), Norm(SubSeq(b, 1, Len(b) - 1)))

RECURSIVE SmallBitLen(_)
SmallBitLen(x) == IF x = 0 THEN 0 ELSE 1 + SmallBitLen(x \div 2)

BitLen(n) == IF n = <<>> THEN 0 ELSE 10 * (Len(n) - 1) + SmallBitLen(n[Len(n)])

\* n * 2^b
ShiftLeft(n, b) ==
    IF n = <<>> THEN n
    ELSE [i \in 1..(b \div 10) |-> 0] \o MulSmall(n, 2 ^ (b % 10), 0)

\* floor(n / 2^b)
ShiftRight(n, b) ==
    IF Len(n) <= b \div 10 THEN <<>>
    ELSE DivRemSmall(SubSeq(n, (b \div 10) + 1, Len(n)), 2 ^ (b % 10)).q

IsOdd(n) == n # <<>> /\ n[1] % 2 = 1

----------------------------------------------------------------------------
(* IEEE-754 doubles *)

MantBits == 53

\* The double nearest to (n + s) * 2^e, where s is a fraction in [0, 1) that is
\* nonzero exactly when sticky holds; ties go to the even mantissa.
RoundToDouble(n, sticky, e) ==
    LET drop == BitLen(n) - MantBits
    IN  IF drop <= 0
        THEN [mant |-> n, exp |-> e]
        ELSE LET q     == ShiftRight(n, drop)
                 guard == IsOdd(ShiftRight(n, drop - 1))
                 low   == sticky \/ ShiftLeft(ShiftRight(n, drop - 1), drop - 1) # n
                 up    == guard /\ (low \/ IsOdd(q))
             IN  [mant |-> IF up THEN BigAdd(q, <<1>>) ELSE q, exp |-> e + drop]

\* the integer written by the decimal digits digs, after acc
RECURSIVE FromDigits(_, _)
FromDigits(digs, acc) ==
    IF digs = <<>> THEN acc
    ELSE FromDigits(Tail(digs), MulSmall(acc, 10, DigitVal(Head(digs))))

\* floor(n / 10^frac), and whether anything was cut off
RECURSIVE DivPow10(_, _)
DivPow10(n, frac) ==
    IF frac = 0 THEN [q |-> n, sticky |-> FALSE]
    ELSE LET d    == DivRemSmall(n, 10)
             rest == DivPow10(d.q, frac - 1)
         IN  [q |-> rest.q, sticky |-> rest.sticky \/ d.r # 0]

\* The correctly rounded double of the decimal digs / 10^frac: the quotient is
\* taken with 10 * (frac + 6) extra bits, which leaves it more than 53 bits long.
FloatOfDecimal(digs, frac) ==
    LET m      == FromDigits(digs, <<>>)
        limbs  == frac + 6
        scaled == IF m = <<>> THEN m ELSE [i \in 1..limbs |-> 0] \o m
        d      == DivPow10(scaled, frac)
    IN  RoundToDouble(d.q, d.sticky, -(10 * limbs))

SelectChars(s, S) == SelectSeq(s, LAMBDA c : c \in S)

RECURSIVE IndexOf(_, _)
IndexOf(s, c) == IF s = <<>> \/ Head(s) = c THEN 1 ELSE 1 + IndexOf(Tail(s), c)

\* float(value) accepts a string of digits and dots only when it holds at most one
\* dot and at least one digit, and raises ValueError otherwise
FloatValid(value) ==
    /\ Len(SelectChars(value, {"."})) <= 1
    /\ Len(SelectChars(value, DigitChars)) >= 1

\* float(value) for an accepted string: the double nearest to its decimal value
float(value) ==
    LET digs == SelectChars(value, DigitChars)
        frac == IF "." \in {value[i] : i \in 1..Len(value)}
                THEN Len(value) - IndexOf(value, ".") ELSE 0
    IN  FloatOfDecimal(digs, frac)

\* float * int: the operand is a power of two here, the product is rounded as any
FloatMul(x, c) == RoundToDouble(BigMul(x.mant, c), FALSE, x.exp)

\* int(float): truncation toward zero
IntOfFloat(x) == IF x.exp >= 0 THEN ShiftLeft(x.mant, x.exp) ELSE ShiftRight(x.mant, -x.exp)

----------------------------------------------------------------------------
(* FileAnalyzer.parse_file_size *)

UnitChars == {"K", "M", "G", "T"}

SIZE_MULTIPLIERS ==
    [u \in UnitChars |->
        CASE u = "K" -> ToBig(1024)
          [] u = "M" -> BigMul(ToBig(1024), ToBig(1024))
          [] u = "G" -> BigMul(ToBig(1024), BigMul(ToBig(1024), ToBig(1024)))
          [] u = "T" -> BigMul(BigMul(ToBig(1024), ToBig(1024)),
                               BigMul(ToBig(1024), ToBig(1024)))]

\* the longest prefix of s made of digits and dots: what [\d.]+ takes
RECURSIVE ValueLen(_)
ValueLen(s) ==
    IF s # <<>> /\ Head(s) \in DigitChars \cup {"."} THEN 1 + ValueLen(Tail(s)) ELSE 0

\* re.match(r'^([\d.]+)([KMGT])?B?$', s): the groups, or matched = FALSE
SizeMatch(s) ==
    LET n    == ValueLen(s)
        rest == SubSeq(s, n + 1, Len(s))
        unit == IF rest # <<>> /\ rest[1] \in UnitChars THEN <<rest[1]>> ELSE <<>>
        tail == SubSeq(rest, Len(unit) + 1, Len(rest))
    IN  [matched |-> n >= 1 /\ tail \in {<<>>, <<"B">>},
         value   |-> SubSeq(s, 1, n),
         unit    |-> unit]

Returned(v) == [exc |-> "", val |-> v]
Raised(e)   == [exc |-> e, val |-> <<>>]

parse_file_size(s) ==
    LET match == SizeMatch(Strip(s))
    IN  IF ~match.matched THEN Returned(<<>>)
        ELSE IF ~FloatValid(match.value) THEN Raised("ValueError")
        ELSE LET bytes_value == float(match.value)
                 scaled      == IF match.unit # <<>>
                                THEN FloatMul(bytes_value, SIZE_MULTIPLIERS[match.unit[1]])
                                ELSE bytes_value
             IN  Returned(IntOfFloat(scaled))

----------------------------------------------------------------------------
(* FileAnalyzer.process_file_listing *)

Min(a, b) == IF a < b THEN a ELSE b

\* str.splitlines(), for text whose only line boundary is "\n"
RECURSIVE SplitLines(_)
SplitLines(s) ==
    IF s = <<>> THEN <<>>
    ELSE LET i == IndexOf(s, "\n")
         IN  <<SubSeq(s, 1, i - 1)>> \o SplitLines(SubSeq(s, i + 1, Len(s)))

\* sep.join(parts)
RECURSIVE Join(_, _)
Join(parts, sep) ==
    IF parts = <<>> THEN <<>>
    ELSE IF Len(parts) = 1 THEN parts[1]
    ELSE parts[1] \o sep \o Join(Tail(parts), sep)

\* whether \s+(.+)$ matches t from position q + 1 on
TailMatches(t, q) == q + 2 <= Len(t) /\ IsSpace(t[q + 1])

\* the closing brackets the lazy (.+?) may stop at, for an opening bracket at p
Closers(t, p) == {q \in (p + 2)..Len(t) : t[q] = "]" /\ TailMatches(t, q)}

\* re.match(r'.*\[(.+?)\]\s+(.+)$', t): the greedy .* settles on the last opening
\* bracket from which the rest matches, the lazy group on the first closing one;
\* \s+ takes the whole run of whitespace unless nothing would be left for (.+).
LineMatch(t) ==
    LET openers == {p \in 1..Len(t) : t[p] = "[" /\ Closers(t, p) # {}}
        p       == CHOOSE x \in openers : \A y \in openers : y <= x
        q       == CHOOSE x \in Closers(t, p) : \A y \in Closers(t, p) : x <= y
        after   == SubSeq(t, q + 1, Len(t))
    IN  IF openers = {}
        THEN [matched |-> FALSE, size_str |-> <<>>, name |-> <<>>]
        ELSE [matched  |-> TRUE,
              size_str |-> SubSeq(t, p + 1, q - 1),
              name     |-> IF LStrip(after) # <<>> THEN LStrip(after)
                           ELSE <<after[Len(after)]>>]

\* Path(name).suffix for a name without "/": from the last dot on, unless that dot
\* starts or ends the name
Suffix(name) ==
    LET dots == {i \in 1..Len(name) : name[i] = "."}
        i    == CHOOSE x \in dots : \A y \in dots : y <= x
    IN  IF dots # {} /\ 1 < i /\ i < Len(name) THEN SubSeq(name, i, Len(name)) ELSE <<>>

\* the indentation taken as the depth, without the division by the indent width
IndentLevel_NoDiv(line) == Len(line) - Len(LStrip(line))

\* (len(line) - len(line.lstrip())) // 2
IndentLevel(line) == (Len(line) - Len(LStrip(line))) \div 2

\* while len(current_path) > indent_level: current_path.pop()
PopTo(stack, indent_level) == SubSeq(stack, 1, Min(Len(stack), indent_level))

\* current_path[:indent_level]
Slice(stack, indent_level) == SubSeq(stack, 1, Min(Len(stack), indent_level))

\* the slice cut one segment short
NextPath_ShortSlice(popped, indent_level, name) ==
    Append(Slice(popped, indent_level - 1), name)

\* current_path = current_path[:indent_level]; current_path.append(name)
NextPath(popped, indent_level, name) == Append(Slice(popped, indent_level), name)

FileEntry(path, size, extension) == [path |-> path, size |-> size, extension |-> extension]

\* One pass of the loop body over line, from the locals st = [current_path, entries, exc]
ProcessLine(line, st) ==
    IF Strip(line) = <<>> THEN st
    ELSE LET indent_level == IndentLevel(line)
             popped       == PopTo(st.current_path, indent_level)
             match        == LineMatch(Strip(line))
             size         == parse_file_size(match.size_str)
             path         == NextPath(popped, indent_level, match.name)
         IN  IF ~match.matched THEN [st EXCEPT !.current_path = popped]
             ELSE IF size.exc # "" THEN [st EXCEPT !.current_path = popped, !.exc = size.exc]
             ELSE [st EXCEPT !.current_path = path,
                             !.entries = Append(st.entries,
                                 FileEntry(Join(path, <<"/">>), size.val,
                                           Lower(Suffix(match.name))))]

RECURSIVE ProcessLines(_, _)
ProcessLines(lines, st) ==
    IF lines = <<>> \/ st.exc # "" THEN st
    ELSE ProcessLines(Tail(lines), ProcessLine(Head(lines), st))

\* the whole call: its entries, or the exception that ended it
process_file_listing(text) ==
    ProcessLines(SplitLines(text), [current_path |-> <<>>, entries |-> <<>>, exc |-> ""])

----------------------------------------------------------------------------
(* DataVisualizer.analyze_patterns *)

\* 1024**2 and 100 * 1024**2
SmallLimit  == BigMul(ToBig(1024), ToBig(1024))
MediumLimit == MulSmall(SmallLimit, 100, 0)

\* the limits taken inclusively: <= where the code has <
Bucket_Inclusive(size) ==
    IF BigLess(size, SmallLimit) \/ size = SmallLimit THEN "small"
    ELSE IF BigLess(size, MediumLimit) \/ size = MediumLimit THEN "medium"
    ELSE "large"

Bucket(size) ==
    IF BigLess(size, SmallLimit) THEN "small"
    ELSE IF BigLess(size, MediumLimit) THEN "medium"
    ELSE "large"

\* the empty extension counted like any other
CountExtension_All(stats, extension) ==
    LET seen == IF extension \in DOMAIN stats THEN stats
                ELSE [e \in DOMAIN stats \cup {extension} |->
                         IF e = extension THEN 0 ELSE stats[e]]
    IN  [seen EXCEPT ![extension] = @ + 1]

CountExtension(stats, extension) ==
    IF extension = <<>> THEN stats
    ELSE LET seen == IF extension \in DOMAIN stats THEN stats
                     ELSE [e \in DOMAIN stats \cup {extension} |->
                              IF e = extension THEN 0 ELSE stats[e]]
         IN  [seen EXCEPT ![extension] = @ + 1]

CountBucket(dist, size) == [dist EXCEPT ![Bucket(size)] = @ + 1]

RECURSIVE SumSizes(_)
SumSizes(es) == IF es = <<>> THEN <<>> ELSE BigAdd(Head(es).size, SumSizes(Tail(es)))

RECURSIVE AnalyzeLoop(_, _)
AnalyzeLoop(es, a) ==
    IF es = <<>> THEN a
    ELSE AnalyzeLoop(Tail(es),
             [a EXCEPT !.extension_stats   = CountExtension(@, Head(es).extension),
                       !.size_distribution = CountBucket(@, Head(es).size)])

analyze_patterns(es) ==
    AnalyzeLoop(es, [total_files       |-> Len(es),
                     total_size        |-> SumSizes(es),
                     extension_stats   |-> [e \in {} |-> 0],
                     size_distribution |-> [small |-> 0, medium |-> 0, large |-> 0]])

----------------------------------------------------------------------------
(* Inputs *)

MaxTokenLen == 3
MaxLines    == 3
MaxEntries  == 3
MaxFileLines == 2

SeqsUpTo(S, n) == UNION {[1..k -> S] : k \in 0..n}

TokenChars == {"1", "5", ".", "K", "T", "B", "k", " "}

SampleTokens ==
    { <<"g","a","r","b","a","g","e">>, <<"4","k">>, <<".","5","K">>, <<"1",".">>,
      <<"1",".","2",".","3">>, <<"K","B">>, <<"4",".","2","M">>, <<"5","1","2">>,
      <<"5","1","2","B">>, <<"1","G">>, <<" ","1","0","M">>, <<"5","0","0","K">>,
      <<"7","5","7",".","7","1","T">>, <<"5",".","8","1","2","6","8","T">>,
      <<"9","0","0","7","1","9","9","2","5","4","7","4","0","9","9","3">> }

Tokens == SeqsUpTo(TokenChars, MaxTokenLen) \cup SampleTokens

Indent(n) == [i \in 1..n |-> " "]

LineBodies ==
    { <<"[","1","K","]"," ","r">>,
      <<"[","5","M","]"," ","a",".","T">>,
      <<"x">>,
      <<"[",".","]"," ","b">> }

ListingLines == {Indent(n) \o b : n \in {0, 3, 4}, b \in LineBodies} \cup {Indent(2)}

SampleListing ==
    Join(<< <<"[", " ", "1", "0", "M", "]", " ", "r", "o", "o", "t">>,
            Indent(2) \o <<"[", " ", "1", "M", "]", " ", "a", ".", "t", "x", "t">>,
            Indent(2) \o <<"[", " ", "2", "M", "]", " ", "s", "u", "b">>,
            Indent(4) \o <<"[", "5", "0", "0", "K", "]", " ", "b", ".", "l", "o", "g">> >>,
         <<"\n">>)

Listings(n) == {Join(ls, <<"\n">>) : ls \in SeqsUpTo(ListingLines, n)} \cup {SampleListing}

SampleEntries ==
    { FileEntry(<<"a">>, ToBig(0), <<>>),
      FileEntry(<<"b", ".", "t">>, ToBig(1048575), <<".", "t">>),
      FileEntry(<<"c">>, ToBig(1048576), <<>>),
      FileEntry(<<"d", ".", "g">>, ToBig(1048576), <<".", "g">>),
      FileEntry(<<"e", ".", "t">>, ToBig(104857599), <<".", "t">>),
      FileEntry(<<"f">>, ToBig(104857600), <<>>),
      FileEntry(<<"g", ".", "g">>, ToBig(104857601), <<".", "g">>) }

----------------------------------------------------------------------------
(* State machine *)

NoAnalysis == analyze_patterns(<<>>)

Idle ==
    /\ size_str = <<>>
    /\ size_ret = Returned(<<>>)
    /\ content = <<>>
    /\ line_no = 0
    /\ current_path = <<>>
    /\ entries = <<>>
    /\ analysis = NoAnalysis
    /\ files = {}
    /\ stages = <<>>

\* a call of parse_file_size
ParseFileSize ==
    /\ pc = "size_call"
    /\ size_ret' = parse_file_size(size_str)
    /\ pc' = IF size_ret'.exc = "" THEN "size_returned" ELSE "size_raised"
    /\ UNCHANGED <<size_str, content, line_no, current_path, entries, analysis, files, stages>>

\* one iteration of the loop of process_file_listing
ListingLine ==
    /\ pc = "parse"
    /\ line_no < Len(SplitLines(content))
    /\ LET st == ProcessLine(SplitLines(content)[line_no + 1],
                             [current_path |-> current_path, entries |-> entries, exc |-> ""])
       IN  /\ current_path' = st.current_path
           /\ entries' = st.entries
           /\ pc' = IF st.exc = "" THEN "parse" ELSE "parse_raised"
    /\ line_no' = line_no + 1
    /\ UNCHANGED <<size_str, size_ret, content, analysis, files, stages>>

\* the loop is exhausted: return entries
ListingReturn ==
    /\ pc = "parse"
    /\ line_no = Len(SplitLines(content))
    /\ pc' = "parsed"
    /\ stages' = Append(stages, "parse")
    /\ UNCHANGED <<size_str, size_ret, content, line_no, current_path, entries, analysis, files>>

\* a call of analyze_patterns
AnalyzePatterns ==
    /\ pc = "analyze"
    /\ analysis' = analyze_patterns(entries)
    /\ pc' = "analyzed"
    /\ stages' = Append(stages, "analyze")
    /\ UNCHANGED <<size_str, size_ret, content, line_no, current_path, entries, files>>

(* main *)

FetchOutcomes == {"error", "empty", "bytes"}

\* fetch_content returns None on a request error; main returns on None or b""
AfterFetch(outcome) == IF outcome = "bytes" THEN "save" ELSE "fetch_failed"

Fetch ==
    /\ pc = "fetch"
    /\ \E outcome \in FetchOutcomes :
          /\ pc' = AfterFetch(outcome)
          /\ stages' = IF outcome = "bytes" THEN Append(stages, "fetch") ELSE stages
    /\ UNCHANGED <<size_str, size_ret, content, line_no, current_path, entries, analysis, files>>

SaveArchive ==
    /\ pc = "save"
    /\ files' = files \cup {"downloaded.7z"}
    /\ pc' = "extract"
    /\ stages' = Append(stages, "save")
    /\ UNCHANGED <<size_str, size_ret, content, line_no, current_path, entries, analysis>>

\* extractall either completes, leaving the archive's files (possibly none) in
\* "extracted", or raises, having written some of them or none
Extract ==
    /\ pc = "extract"
    /\ \E ok \in BOOLEAN, written \in {{}, {"extracted/files.lst"}} :
          /\ files' = files \cup written
          /\ pc' = IF ok THEN "listdir" ELSE "extract_failed"
          /\ stages' = IF ok THEN Append(stages, "extract") ELSE stages
    /\ UNCHANGED <<size_str, size_ret, content, line_no, current_path, entries, analysis>>

\* the early return on an empty directory left out
AfterListDir_NoReturn(extracted_files) == "read"

\* if not extracted_files: return
AfterListDir(extracted_files) == IF extracted_files = {} THEN "no_files" ELSE "read"

ListDir ==
    /\ pc = "listdir"
    /\ pc' = AfterListDir(files \cap {"extracted/files.lst"})
    /\ stages' = IF pc' = "read" THEN Append(stages, "check") ELSE stages
    /\ UNCHANGED <<size_str, size_ret, content, line_no, current_path, entries, analysis, files>>

\* f.read() of the first extracted file, then the call of process_file_listing
ReadListing ==
    /\ pc = "read"
    /\ \E text \in Listings(MaxFileLines) : content' = text
    /\ line_no' = 0
    /\ current_path' = <<>>
    /\ entries' = <<>>
    /\ pc' = "parse"
    /\ stages' = Append(stages, "read")
    /\ UNCHANGED <<size_str, size_ret, analysis, files>>

\* generate_extension_wordcloud writes the image, or the plotting library raises
Render ==
    /\ pc = "parsed"
    /\ \E ok \in BOOLEAN :
          /\ files' = IF ok THEN files \cup {"extension_wordcloud.png"} ELSE files
          /\ pc' = IF ok THEN "analyze" ELSE "render_failed"
          /\ stages' = IF ok THEN Append(stages, "render") ELSE stages
    /\ UNCHANGED <<size_str, size_ret, content, line_no, current_path, entries, analysis>>

WriteJson ==
    /\ pc = "analyzed"
    /\ files' = files \cup {"analysis_results.json"}
    /\ pc' = "complete"
    /\ stages' = Append(stages, "write")
    /\ UNCHANGED <<size_str, size_ret, content, line_no, current_path, entries, analysis>>

(* Specifications *)

InitSize ==
    /\ size_str \in Tokens
    /\ size_ret = Returned(<<>>)
    /\ content = <<>> /\ line_no = 0 /\ current_path = <<>> /\ entries = <<>>
    /\ analysis = NoAnalysis /\ files = {} /\ stages = <<>>
    /\ pc = "size_call"

NextSize == ParseFileSize

SpecSize == InitSize /\ [][NextSize]_vars

InitListing ==
    /\ content \in Listings(MaxLines)
    /\ size_str = <<>> /\ size_ret = Returned(<<>>)
    /\ line_no = 0 /\ current_path = <<>> /\ entries = <<>>
    /\ analysis = NoAnalysis /\ files = {} /\ stages = <<>>
    /\ pc = "parse"

NextListing == ListingLine \/ ListingReturn

SpecListing == InitListing /\ [][NextListing]_vars

InitAnalyze ==
    /\ entries \in SeqsUpTo(SampleEntries, MaxEntries)
    /\ size_str = <<>> /\ size_ret = Returned(<<>>)
    /\ content = <<>> /\ line_no = 0 /\ current_path = <<>>
    /\ analysis = NoAnalysis /\ files = {} /\ stages = <<>>
    /\ pc = "analyze"

NextAnalyze == AnalyzePatterns

SpecAnalyze == InitAnalyze /\ [][NextAnalyze]_vars

Init ==
    /\ Idle
    /\ pc = "fetch"

Next ==
    \/ Fetch \/ SaveArchive \/ Extract \/ ListDir \/ ReadListing
    \/ ListingLine \/ ListingReturn \/ Render \/ AnalyzePatterns \/ WriteJson

Spec == Init /\ [][Next]_vars

----------------------------------------------------------------------------
(* Claims about parse_file_size, under SpecSize *)

RECURSIVE DigitRun(_)
DigitRun(t) == IF t # <<>> /\ Head(t) \in DigitChars THEN 1 + DigitRun(Tail(t)) ELSE 0

\* The format the specification recognizes: digits, optionally a dot and more
\* digits, optionally one of K M G T, optionally B.  whole and frac are the
\* lengths of the two digit runs.
Format(t) ==
    LET whole   == DigitRun(t)
        after   == SubSeq(t, whole + 1, Len(t))
        dotted  == after # <<>> /\ after[1] = "."
        frac    == IF dotted THEN DigitRun(Tail(after)) ELSE 0
        rest    == IF dotted THEN SubSeq(after, frac + 2, Len(after)) ELSE after
        unit    == IF rest # <<>> /\ rest[1] \in UnitChars THEN rest[1] ELSE ""
        suffix  == IF unit = "" THEN rest ELSE Tail(rest)
    IN  [ok    |-> whole >= 1 /\ (dotted => frac >= 1) /\ suffix \in {<<>>, <<"B">>},
         whole |-> whole, frac |-> frac, unit |-> unit]

Recognized(t) == Format(t).ok

UnitPower(u) ==
    CASE u = "" -> 0 [] u = "K" -> 1 [] u = "M" -> 2 [] u = "G" -> 3 [] u = "T" -> 4

RECURSIVE Pow10(_)
Pow10(n) == IF n = 0 THEN <<1>> ELSE MulSmall(Pow10(n - 1), 10, 0)

RECURSIVE Pow1024(_)
Pow1024(n) == IF n = 0 THEN <<1>> ELSE <<0>> \o Pow1024(n - 1)

\* r = floor(v * 1024^k) for the recognized token t with decimal value v and unit
\* power k: r * 10^frac <= digits * 1024^k < (r + 1) * 10^frac
IsExactFloor(r, t) ==
    LET fmt == Format(t)
        num == BigMul(FromDigits(SelectChars(t, DigitChars), <<>>), Pow1024(UnitPower(fmt.unit)))
        den == Pow10(fmt.frac)
    IN  /\ ~BigLess(num, BigMul(r, den))
        /\ BigLess(num, BigMul(BigAdd(r, <<1>>), den))

\* C4: whenever parse_file_size returns for a token that, once trimmed, is not of
\* the recognized format, it returns 0.
C4_UnrecognizedGivesZero ==
    (pc = "size_returned" /\ ~Recognized(Strip(size_str))) => size_ret.val = <<>>

\* C5: for every token of the recognized format, with decimal value v and unit
\* power k, parse_file_size returns floor(v * 1024^k); '4.2M' gives 4404019,
\* '512' and '512B' give 512 and '1G' gives 1073741824.
C5_ExactFloor ==
    (pc # "size_call" /\ Recognized(Strip(size_str))) =>
        /\ pc = "size_returned"
        /\ IsExactFloor(size_ret.val, Strip(size_str))
        /\ size_str = <<"4", ".", "2", "M">> => size_ret.val = ToBig(4404019)
        /\ size_str \in {<<"5", "1", "2">>, <<"5", "1", "2", "B">>} => size_ret.val = ToBig(512)
        /\ size_str = <<"1", "G">> => size_ret.val = ToBig(1073741824)

\* What does hold of the short tokens: the exact floor for every recognized token
\* of at most MaxTokenLen characters, and the specification's examples.
C5_ShortTokens ==
    (pc # "size_call" /\ Recognized(Strip(size_str))
       /\ (Len(size_str) <= MaxTokenLen \/ Len(SelectChars(size_str, DigitChars)) <= 4)) =>
        /\ pc = "size_returned"
        /\ IsExactFloor(size_ret.val, Strip(size_str))

----------------------------------------------------------------------------
(* Claims about process_file_listing, under SpecListing *)

RECURSIVE LeadingSpace(_)
LeadingSpace(line) ==
    IF line # <<>> /\ IsSpace(Head(line)) THEN 1 + LeadingSpace(Tail(line)) ELSE 0

\* the bracket-size pattern: anything, a bracketed token of at least one character,
\* whitespace, and a name
BracketPattern(t) ==
    \E p \in 1..Len(t), q \in 1..Len(t) :
        /\ t[p] = "[" /\ t[q] = "]" /\ q >= p + 2
        /\ q + 2 <= Len(t) /\ IsSpace(t[q + 1])

\* what the claims say of each line of the input: whether it is blank, whether it
\* matches the pattern, its depth, and the name and size token it carries
LineFacts ==
    LET ls == SplitLines(content)
    IN  [i \in 1..Len(ls) |->
            [blank   |-> \A k \in 1..Len(ls[i]) : IsSpace(ls[i][k]),
             matches |-> BracketPattern(Strip(ls[i])),
             depth   |-> LeadingSpace(ls[i]) \div 2,
             name    |-> LineMatch(Strip(ls[i])).name,
             token   |-> LineMatch(Strip(ls[i])).size_str]]

\* the matching lines among the first n, in input order
RECURSIVE MatchingUpTo(_, _)
MatchingUpTo(F, n) ==
    IF n = 0 THEN <<>>
    ELSE IF F[n].matches THEN Append(MatchingUpTo(F, n - 1), n) ELSE MatchingUpTo(F, n - 1)

EndsWith(s, t) == Len(t) <= Len(s) /\ SubSeq(s, Len(s) - Len(t) + 1, Len(s)) = t

IsPrefix(s, t) == Len(s) <= Len(t) /\ SubSeq(t, 1, Len(s)) = s

\* C3: process_file_listing never fails: every line consumed was skipped or gave
\* exactly one entry, a matching line with an unparseable size token included.
C3_NeverFails ==
    /\ pc # "parse_raised"
    /\ Len(entries) = Len(MatchingUpTo(LineFacts, line_no))

\* C6: for every input text the call returns, with as many entries as there are
\* matching lines, the i-th entry coming from the i-th matching line.
C6_OneEntryPerMatchingLine ==
    pc \in {"parsed", "parse_raised"} =>
        LET F   == LineFacts
            idx == MatchingUpTo(F, Len(F))
        IN  /\ pc = "parsed"
            /\ Len(entries) = Len(idx)
            /\ \A i \in 1..Len(entries) : EndsWith(entries[i].path, F[idx[i]].name)

\* What does hold: as long as no size token raised, the entries are those of the
\* matching lines consumed so far, in order.
C6_WhileNotRaised ==
    pc # "parse_raised" =>
        LET F   == LineFacts
            idx == MatchingUpTo(F, line_no)
        IN  /\ Len(entries) = Len(idx)
            /\ \A i \in 1..Len(entries) :
                  /\ EndsWith(entries[i].path, F[idx[i]].name)
                  /\ entries[i].size = parse_file_size(F[idx[i]].token).val

WithoutNonMatching(text) ==
    Join(SelectSeq(SplitLines(text), LAMBDA l : Strip(l) = <<>> \/ BracketPattern(Strip(l))),
         <<"\n">>)

\* C2: a non-blank line that does not match the pattern emits no entry and leaves
\* the path stack unchanged; the entries of a listing are those of the listing
\* with its non-matching lines removed.
C2_NonMatchingLineSkipped ==
    /\ [][(pc = "parse" /\ line_no < Len(LineFacts)
             /\ ~LineFacts[line_no + 1].blank /\ ~LineFacts[line_no + 1].matches)
            => (entries' = entries /\ current_path' = current_path)]_vars
    /\ [](pc = "parsed" => entries = process_file_listing(WithoutNonMatching(content)).entries)

\* every non-blank line matches, the first one has depth 0 and none is more than
\* one level deeper than the one before it
WellFormed(F) ==
    /\ \A i \in 1..Len(F) : ~F[i].blank => F[i].matches
    /\ LET nb == MatchingUpTo(F, Len(F))
       IN  /\ nb # <<>> => F[nb[1]].depth = 0
           /\ \A j \in 2..Len(nb) : F[nb[j]].depth <= F[nb[j - 1]].depth + 1

\* the nearest line before line j at depth k
Ancestor(F, j, k) ==
    LET above == {i \in 1..(j - 1) : F[i].matches /\ F[i].depth = k}
    IN  CHOOSE i \in above : \A y \in above : y <= i

ExpectedPath(F, j) ==
    Join([k \in 1..F[j].depth |-> F[Ancestor(F, j, k - 1)].name] \o <<F[j].name>>, <<"/">>)

SamplePaths ==
    << <<"r", "o", "o", "t">>,
       <<"r", "o", "o", "t", "/", "a", ".", "t", "x", "t">>,
       <<"r", "o", "o", "t", "/", "s", "u", "b">>,
       <<"r", "o", "o", "t", "/", "s", "u", "b", "/", "b", ".", "l", "o", "g">> >>

\* C1: in a listing whose non-blank lines all match, whose first line has depth 0
\* and whose depths grow by at most one per line, the path of every entry is the
\* '/'-join of the names of the nearest preceding lines at depths 0 .. depth-1 and
\* of the line's own name; the sample listing yields root, root/a.txt, root/sub,
\* root/sub/b.log.
C1_Hierarchy ==
    /\ entries # <<>> =>
          LET F == LineFacts
          IN  WellFormed(F) =>
                 \A i \in 1..Len(entries) :
                     entries[i].path = ExpectedPath(F, MatchingUpTo(F, line_no)[i])
    /\ (content = SampleListing /\ pc = "parsed") =>
          [i \in 1..Len(entries) |-> entries[i].path] = SamplePaths

Segments(path) == Len(SelectChars(path, {"/"})) + 1

\* a well-formed listing has been parsed to the end and has an entry two levels down
C1_Witness ==
    /\ pc = "parsed"
    /\ WellFormed(LineFacts)
    /\ Len(entries) >= 3
    /\ \E i \in 1..Len(entries) : Segments(entries[i].path) = 3

----------------------------------------------------------------------------
(* Claims about analyze_patterns, under SpecAnalyze *)

RECURSIVE ToInt(_)
ToInt(n) == IF n = <<>> THEN 0 ELSE Head(n) + 1024 * ToInt(Tail(n))

RECURSIVE SumInt(_)
SumInt(es) == IF es = <<>> THEN 0 ELSE ToInt(Head(es).size) + SumInt(Tail(es))

RECURSIVE SumCounts(_)
SumCounts(f) ==
    IF DOMAIN f = {} THEN 0
    ELSE LET e == CHOOSE x \in DOMAIN f : TRUE
         IN  f[e] + SumCounts([x \in DOMAIN f \ {e} |-> f[x]])

Indices(P(_)) == {i \in 1..Len(entries) : P(entries[i])}

\* C7: total_files is the number of entries and the sum of the three buckets,
\* total_size the sum of the sizes, and the extension counts add up to the number
\* of entries with a non-empty extension.
C7_Totals ==
    pc = "analyzed" =>
        /\ analysis.total_files = Len(entries)
        /\ analysis.total_files = analysis.size_distribution.small
                                  + analysis.size_distribution.medium
                                  + analysis.size_distribution.large
        /\ ToInt(analysis.total_size) = SumInt(entries)
        /\ SumCounts(analysis.extension_stats)
              = Cardinality(Indices(LAMBDA e : e.extension # <<>>))
        /\ \A x \in DOMAIN analysis.extension_stats :
              analysis.extension_stats[x]
                  = Cardinality(Indices(LAMBDA e : e.extension = x))

\* entries with and without an extension have been aggregated
C7_Witness ==
    /\ pc = "analyzed"
    /\ Len(entries) >= 3
    /\ Indices(LAMBDA e : e.extension = <<>>) # {}
    /\ Cardinality(DOMAIN analysis.extension_stats) = 2

----------------------------------------------------------------------------
(* Claims about main, under Spec *)

StageOrder ==
    <<"fetch", "save", "extract", "check", "read", "parse", "render", "analyze", "write">>

Failures == {"fetch_failed", "extract_failed", "no_files", "parse_raised", "render_failed"}

Outputs == {"extension_wordcloud.png", "analysis_results.json"}

\* C9: the stages run in the one order; a failed fetch ends the run with no file
\* written, a failed extraction or an empty directory ends it without the image
\* and without analysis_results.json, nothing runs after a failure, and
\* analysis_results.json is written only after every earlier stage completed.
C9_Pipeline ==
    /\ IsPrefix(stages, StageOrder)
    /\ pc = "fetch_failed" => files = {}
    /\ pc \in {"extract_failed", "no_files"} => files \cap Outputs = {}
    /\ "extracted/files.lst" \notin files => files \cap Outputs = {}
    /\ pc \in Failures => ~ENABLED Next /\ "analysis_results.json" \notin files
    /\ "analysis_results.json" \in files =>
          /\ stages = StageOrder
          /\ pc = "complete"
          /\ files = {"downloaded.7z", "extracted/files.lst"} \cup Outputs

\* the run stopped at the empty directory, the archive saved and nothing else
C9_Witness ==
    /\ pc = "no_files"
    /\ files = {"downloaded.7z"}
    /\ stages = <<"fetch", "save", "extract">>

====
